---- MODULE Spec2Model ----
(***************************************************************************)
(* Model of pkg/cmd/workflow/run/run.go: the `run` command's argument      *)
(* validator and RunE (NewCmdRun), runRun, and findInputs.                 *)
(*                                                                         *)
(* Strings of the program are sequences of one-character strings, so that  *)
(* case folding, "--name=value" parsing and string equality are computed,  *)
(* not assumed.  Error messages are the only atomic strings.               *)
(***************************************************************************)
EXTENDS Integers, Sequences, FiniteSets, TLC

VARIABLES pc, args, argsLenAtDash, io, opts, rootNode, found, providedInputs, ret

vars == <<pc, args, argsLenAtDash, io, opts, rootNode, found, providedInputs, ret>>

(***************************************************************************)
(* Bounds of the model.                                                    *)
(***************************************************************************)
MaxPairs == 2       \* key/value pairs in a generated mapping node
MaxInputs == 2      \* declared inputs in a generated `inputs` mapping
MaxRoot == 2        \* content nodes under a generated root node
MaxArgs == 2        \* command-line arguments

(***************************************************************************)
(* Strings.                                                                *)
(***************************************************************************)
UpperChars == <<"A","B","C","D","E","F","G","H","I","J","K","L","M",
                "N","O","P","Q","R","S","T","U","V","W","X","Y","Z">>
LowerChars == <<"a","b","c","d","e","f","g","h","i","j","k","l","m",
                "n","o","p","q","r","s","t","u","v","w","x","y","z">>

\* simple case folding of one character (ASCII letters)
FoldChar(c) ==
    IF \E i \in DOMAIN UpperChars : UpperChars[i] = c
    THEN LowerChars[CHOOSE i \in DOMAIN UpperChars : UpperChars[i] = c]
    ELSE c

\* strings.EqualFold
EqualFold(s, t) ==
    /\ Len(s) = Len(t)
    /\ \A i \in 1..Len(s) : FoldChar(s[i]) = FoldChar(t[i])

s_on == <<"o","n">>
s_workflow_dispatch ==
    <<"w","o","r","k","f","l","o","w","_","d","i","s","p","a","t","c","h">>
s_inputs == <<"i","n","p","u","t","s">>
s_required == <<"r","e","q","u","i","r","e","d">>
s_default == <<"d","e","f","a","u","l","t">>
s_description == <<"d","e","s","c","r","i","p","t","i","o","n">>
s_true == <<"t","r","u","e">>
s_false == <<"f","a","l","s","e">>
s_empty == <<>>

(***************************************************************************)
(* yaml.Node: Kind, Tag, Value and Content.  A mapping node keeps its keys *)
(* and values as one flat alternating Content sequence.                    *)
(***************************************************************************)
Scalar(tag, v) == [Kind |-> "scalar", Tag |-> tag, Value |-> v, Content |-> <<>>]
Str(v) == Scalar("str", v)
Bool(v) == Scalar("bool", v)
Null == Scalar("null", s_empty)
Mapping(c) == [Kind |-> "mapping", Tag |-> "map", Value |-> s_empty, Content |-> c]
Document(c) == [Kind |-> "document", Tag |-> "", Value |-> s_empty, Content |-> c]
\* content yaml.Unmarshal rejects
Unparseable == [Kind |-> "unparseable", Tag |-> "", Value |-> s_empty, Content |-> <<>>]

(***************************************************************************)
(* Errors: a message, for "missing required input" the input's name, and   *)
(* whether the error is a cmdutil.FlagError.                               *)
(***************************************************************************)
Err(m) == [msg |-> m, arg |-> s_empty, flag |-> FALSE]
ErrArg(m, a) == [msg |-> m, arg |-> a, flag |-> FALSE]
\* cmdutil.FlagError
FlagError(m) == [msg |-> m, arg |-> s_empty, flag |-> TRUE]
NoErr == Err("")
ErrParseYAML == Err("unable to parse workflow YAML")
ErrInvalidYaml == Err("invalid yaml file")
ErrNoOn == Err("invalid workflow: no 'on' key")
ErrNoDispatch == Err("unable to manually run a workflow without a workflow_dispatch event")
ErrDecode == Err("could not decode workflow inputs")

EmptyMap == [n \in {} |-> n]

(***************************************************************************)
(* yaml.Node.Decode into map[string]WorkflowInput (gopkg.in/yaml.v3):      *)
(* a null scalar decodes to the zero value, any other scalar is a type     *)
(* error for a map or struct target; struct fields are keyed by the        *)
(* lower-cased field name, unknown keys are ignored, duplicate keys fail.  *)
(***************************************************************************)
ZeroInput == [Required |-> FALSE, Default |-> s_empty, Description |-> s_empty]

\* indices of the key-position children of a mapping's Content
KeyPositions(c) == {i \in 1..Len(c) : i % 2 = 1}

UniqueKeys(c) ==
    \A i, j \in KeyPositions(c) : (i # j) => c[i].Value # c[j].Value

DecodeBoolOK(n) == n.Kind = "scalar" /\ n.Tag \in {"bool", "null"}
DecodeBool(n) == n.Tag = "bool" /\ n.Value = s_true

DecodeStringOK(n) == n.Kind = "scalar"
DecodeString(n) == IF n.Tag = "null" THEN s_empty ELSE n.Value

\* the value bound to field `name` in a struct mapping's Content, Null if absent
FieldNode(c, name) ==
    IF \E i \in KeyPositions(c) : c[i].Value = name /\ i < Len(c)
    THEN c[(CHOOSE i \in KeyPositions(c) : c[i].Value = name /\ i < Len(c)) + 1]
    ELSE Null

DecodeInputOK(n) ==
    \/ n.Kind = "scalar" /\ n.Tag = "null"
    \/ /\ n.Kind = "mapping"
       /\ \A i \in KeyPositions(n.Content) : n.Content[i].Kind = "scalar"
       /\ UniqueKeys(n.Content)
       /\ DecodeBoolOK(FieldNode(n.Content, s_required))
       /\ DecodeStringOK(FieldNode(n.Content, s_default))
       /\ DecodeStringOK(FieldNode(n.Content, s_description))

DecodeInput(n) ==
    IF n.Kind # "mapping" THEN ZeroInput
    ELSE [Required |-> DecodeBool(FieldNode(n.Content, s_required)),
          Default |-> DecodeString(FieldNode(n.Content, s_default)),
          Description |-> DecodeString(FieldNode(n.Content, s_description))]

DecodeOK(n) ==
    \/ n.Kind = "scalar" /\ n.Tag = "null"
    \/ /\ n.Kind = "mapping"
       /\ \A i \in KeyPositions(n.Content) :
             /\ n.Content[i].Kind = "scalar"
             /\ i < Len(n.Content)
             /\ DecodeInputOK(n.Content[i + 1])
       /\ UniqueKeys(n.Content)

Decode(n) ==
    IF n.Kind # "mapping" THEN EmptyMap
    ELSE LET c == n.Content
             names == {c[i].Value : i \in KeyPositions(c)}
         IN [name \in names |->
                DecodeInput(c[(CHOOSE i \in KeyPositions(c) : c[i].Value = name) + 1])]

(***************************************************************************)
(* findInputs.  The four node pointers of the scan are positions in the    *)
(* Content sequence being scanned (0 is nil): onKeyNode in the top-level   *)
(* mapping, dispatchKeyNode in the node after onKeyNode, inputsKeyNode and *)
(* inputsMapNode in the node after dispatchKeyNode.                        *)
(***************************************************************************)
RootOKAtLeastOne(root) == Len(root.Content) >= 1

RootOK(root) == Len(root.Content) = 1

MatchOnExact(v) == v = s_on

MatchOn(v) == EqualFold(v, s_on)

MatchDispatch(v) == v = s_workflow_dispatch

MatchInputs(v) == v = s_inputs

RECURSIVE ScanInputs(_, _, _)
ScanInputs(c, i, key) ==
    IF i > Len(c) THEN [inputsKeyNode |-> key, inputsMapNode |-> 0]
    ELSE IF key # 0 THEN [inputsKeyNode |-> key, inputsMapNode |-> i]
    ELSE ScanInputs(c, i + 1, IF MatchInputs(c[i].Value) THEN i ELSE 0)

RECURSIVE ScanDispatch(_, _, _)
ScanDispatch(c, i, key) ==
    IF i > Len(c)
    THEN [dispatchKeyNode |-> key, inputsKeyNode |-> 0, inputsMapNode |-> 0]
    ELSE IF key # 0
    THEN LET in == ScanInputs(c[i].Content, 1, 0)
         IN [dispatchKeyNode |-> key, inputsKeyNode |-> in.inputsKeyNode,
             inputsMapNode |-> in.inputsMapNode]
    ELSE ScanDispatch(c, i + 1, IF MatchDispatch(c[i].Value) THEN i ELSE 0)

RECURSIVE ScanOn(_, _, _)
ScanOn(c, i, key) ==
    IF i > Len(c)
    THEN [onKeyNode |-> key, dispatchKeyNode |-> 0, inputsKeyNode |-> 0,
          inputsMapNode |-> 0]
    ELSE IF key # 0
    THEN LET d == ScanDispatch(c[i].Content, 1, 0)
         IN [onKeyNode |-> key, dispatchKeyNode |-> d.dispatchKeyNode,
             inputsKeyNode |-> d.inputsKeyNode, inputsMapNode |-> d.inputsMapNode]
    ELSE ScanOn(c, i + 1, IF MatchOn(c[i].Value) THEN i ELSE 0)

NoScan == [onKeyNode |-> 0, dispatchKeyNode |-> 0, inputsKeyNode |-> 0,
           inputsMapNode |-> 0]

\* the nodes the scan descended into
OnScanned(root, sc) == root.Content[1].Content[sc.onKeyNode + 1]
DispatchScanned(root, sc) == OnScanned(root, sc).Content[sc.dispatchKeyNode + 1]
InputsMapNode(root, sc) == DispatchScanned(root, sc).Content[sc.inputsMapNode]

Failed(e, sc) == [out |-> EmptyMap, outNil |-> TRUE, err |-> e, scan |-> sc]
Returned(m, n, sc) == [out |-> m, outNil |-> n, err |-> NoErr, scan |-> sc]

findInputs(root) ==
    IF root.Kind = "unparseable" THEN Failed(ErrParseYAML, NoScan)
    ELSE IF ~RootOK(root) THEN Failed(ErrInvalidYaml, NoScan)
    ELSE LET sc == ScanOn(root.Content[1].Content, 1, 0) IN
         IF sc.onKeyNode = 0 THEN Failed(ErrNoOn, sc)
         ELSE IF sc.dispatchKeyNode = 0 THEN Failed(ErrNoDispatch, sc)
         ELSE IF sc.inputsKeyNode = 0 \/ sc.inputsMapNode = 0
              THEN Returned(EmptyMap, FALSE, sc)
         ELSE LET n == InputsMapNode(root, sc) IN
              IF ~DecodeOK(n) THEN Failed(ErrDecode, sc)
              ELSE Returned(Decode(n), n.Kind # "mapping", sc)

NotCalled == [out |-> EmptyMap, outNil |-> TRUE, err |-> NoErr, scan |-> NoScan]

(***************************************************************************)
(* Workflow documents the specifications draw from.  Each family varies    *)
(* one nesting level freely (keys, decoy scalars in value position, order, *)
(* up to MaxPairs pairs) under a fixed path down to it, with a few         *)
(* representative values for the level below.                              *)
(***************************************************************************)
s_On == <<"O","n">>
s_oN == <<"o","N">>
s_ON == <<"O","N">>
s_Workflow_Dispatch ==
    <<"W","o","r","k","f","l","o","w","_","D","i","s","p","a","t","c","h">>
s_Inputs == <<"I","n","p","u","t","s">>
s_name == <<"n","a","m","e">>
s_tag == <<"t","a","g">>
s_push == <<"p","u","s","h">>
s_who == <<"w","h","o">>
s_x == <<"x">>
s_maybe == <<"m","a","y","b","e">>

\* flat alternating key/value sequences of at most n pairs, no key twice
RECURSIVE PairSeqs(_, _, _)
PairSeqs(K, V, n) ==
    IF n = 0 THEN {<<>>}
    ELSE LET S == PairSeqs(K, V, n - 1)
             T == {<<Str(k), v>> \o s : k \in K, v \in V, s \in S}
         IN S \cup {c \in T : UniqueKeys(c)}

\* sequences over V of at most n elements
RECURSIVE SeqsUpTo(_, _)
SeqsUpTo(V, n) ==
    IF n = 0 THEN {<<>>}
    ELSE LET S == SeqsUpTo(V, n - 1)
         IN S \cup {<<v>> \o t : v \in V, t \in S}

InputDecl(r, d, w) ==
    Mapping(<<Str(s_required), Bool(r), Str(s_default), Str(d),
              Str(s_description), Str(w)>>)

InputDecls ==
    {InputDecl(r, d, s_who) : r \in {s_true, s_false}, d \in {s_empty, s_x}}
        \cup {Mapping(<<Str(s_required), Str(s_maybe)>>)}

InputsMaps == {Mapping(c) : c \in PairSeqs({s_name, s_tag}, InputDecls, MaxInputs)}

GoodInputs == Mapping(<<Str(s_name), InputDecl(s_true, s_empty, s_who)>>)
GoodDispatch == Mapping(<<Str(s_inputs), GoodInputs>>)
GoodOn == Mapping(<<Str(s_workflow_dispatch), GoodDispatch>>)
GoodTop == Mapping(<<Str(s_on), GoodOn>>)

UnderDispatch(n) == Mapping(<<Str(s_on), Mapping(<<Str(s_workflow_dispatch), n>>)>>)

InputsLevelDocs ==
    {Document(<<UnderDispatch(Mapping(<<Str(s_inputs), m>>))>>) :
        m \in InputsMaps \cup {Null, Str(s_x)}}

DispatchLevelDocs ==
    {Document(<<UnderDispatch(Mapping(c))>>) :
        c \in PairSeqs({s_inputs, s_Inputs, s_name},
                       {Str(s_inputs), Null, GoodInputs, Mapping(<<>>)}, MaxPairs)}
      \cup {Document(<<UnderDispatch(Null)>>)}

OnLevelDocs ==
    {Document(<<Mapping(<<Str(s_on), Mapping(c)>>)>>) :
        c \in PairSeqs({s_workflow_dispatch, s_Workflow_Dispatch, s_push},
                       {Str(s_workflow_dispatch), Null, GoodDispatch,
                        Mapping(<<Str(s_Inputs), GoodInputs>>)}, MaxPairs)}

TopLevelDocs ==
    {Document(<<Mapping(c)>>) :
        c \in PairSeqs({s_on, s_On, s_oN, s_ON, s_name},
                       {Str(s_on), Str(s_x), GoodOn, Mapping(<<Str(s_push), Null>>),
                        Mapping(<<Str(s_Workflow_Dispatch), GoodDispatch>>)}, MaxPairs)}

RootLevelDocs ==
    {Document(c) : c \in SeqsUpTo({GoodTop, Mapping(<<Str(s_name), Str(s_x)>>)}, MaxRoot)}

Docs == InputsLevelDocs \cup DispatchLevelDocs \cup OnLevelDocs \cup TopLevelDocs
            \cup RootLevelDocs \cup {Unparseable}

(***************************************************************************)
(* State outside the operation a specification runs.                       *)
(***************************************************************************)
NoIO == [canPrompt |-> FALSE, stdinTTY |-> TRUE, in |-> s_empty, readErr |-> FALSE]
NoOpts == [Selector |-> s_empty, Ref |-> s_empty, InputArgs |-> <<>>,
           JSON |-> s_empty, Prompt |-> FALSE]

(***************************************************************************)
(* findInputs applied to every document of Docs.                           *)
(***************************************************************************)
InitFind ==
    /\ pc = "findInputs"
    /\ rootNode \in Docs
    /\ found = NotCalled
    /\ args = <<>>
    /\ argsLenAtDash = -1
    /\ io = NoIO
    /\ opts = NoOpts
    /\ providedInputs = EmptyMap
    /\ ret = NoErr

FindInputsCall ==
    /\ pc = "findInputs"
    /\ found' = findInputs(rootNode)
    /\ pc' = "done"
    /\ UNCHANGED <<args, argsLenAtDash, io, opts, rootNode, providedInputs, ret>>

NextFind == FindInputsCall

SpecFind == InitFind /\ [][NextFind]_vars

(***************************************************************************)
(* pflag.FlagSet.Parse over string flags named `names` with defaults       *)
(* `defaults`: "--name=value" and "--name value" set a flag, "--" ends     *)
(* flag parsing, an argument not starting with "-" is positional, an       *)
(* unknown flag, a shorthand or a flag missing its value is an error.      *)
(***************************************************************************)
s_dashdash == <<"-","-">>
s_eq == <<"=">>

IsFlagArg(a) == Len(a) >= 2 /\ a[1] = "-"
IsLongArg(a) == IsFlagArg(a) /\ a[2] = "-"

\* position of the first "=" in s, 0 if none
EqAt(t) ==
    IF \E i \in 1..Len(t) : t[i] = "="
    THEN CHOOSE i \in 1..Len(t) : t[i] = "=" /\ \A j \in 1..(i - 1) : t[j] # "="
    ELSE 0

LongName(a) ==
    LET body == SubSeq(a, 3, Len(a))
    IN IF EqAt(body) = 0 THEN body ELSE SubSeq(body, 1, EqAt(body) - 1)

LongHasValue(a) == EqAt(SubSeq(a, 3, Len(a))) # 0

LongValue(a) ==
    LET body == SubSeq(a, 3, Len(a))
    IN SubSeq(body, EqAt(body) + 1, Len(body))

BadLongSyntax(a) == Len(a) >= 3 /\ a[3] \in {"-", "="}

RECURSIVE ParseArgs(_, _, _)
ParseArgs(a, i, vals) ==
    IF i > Len(a) THEN [ok |-> TRUE, vals |-> vals]
    ELSE IF ~IsFlagArg(a[i]) THEN ParseArgs(a, i + 1, vals)
    ELSE IF ~IsLongArg(a[i]) THEN [ok |-> FALSE, vals |-> vals]
    ELSE IF a[i] = s_dashdash THEN [ok |-> TRUE, vals |-> vals]
    ELSE IF BadLongSyntax(a[i]) \/ LongName(a[i]) \notin DOMAIN vals
         THEN [ok |-> FALSE, vals |-> vals]
    ELSE IF LongHasValue(a[i])
         THEN ParseArgs(a, i + 1, [vals EXCEPT ![LongName(a[i])] = LongValue(a[i])])
    ELSE IF i < Len(a)
         THEN ParseArgs(a, i + 2, [vals EXCEPT ![LongName(a[i])] = a[i + 1]])
    ELSE [ok |-> FALSE, vals |-> vals]

(***************************************************************************)
(* runRun, one action per call it makes.  The calls outside this file      *)
(* (HttpClient, BaseRepo, ResolveWorkflow, RepoDefaultBranch, the REST     *)
(* fetch) succeed or fail as the environment decides.                      *)
(***************************************************************************)
s_wf == <<"w","f">>
s_main == <<"m","a","i","n">>
s_json == <<"{","}">>
s_bogus == <<"b","o","g","u","s">>

LongFlag(n, v) == s_dashdash \o n \o s_eq \o v

InputArgVocab ==
    {LongFlag(s_name, s_x), LongFlag(s_name, s_empty), s_dashdash \o s_name,
     LongFlag(s_tag, s_x), LongFlag(s_bogus, s_x), s_x}

RunDocs ==
    InputsLevelDocs
        \cup {Document(<<UnderDispatch(Null)>>), Document(<<>>),
              Document(<<Mapping(<<Str(s_name), Str(s_x)>>)>>),
              Document(<<Mapping(<<Str(s_on), Mapping(<<Str(s_push), Null>>)>>)>>),
              Unparseable}

\* the options RunE hands to runRun
RunOptions ==
    {o \in [Selector : {s_empty, s_wf}, Ref : {s_empty, s_main},
            InputArgs : SeqsUpTo(InputArgVocab, MaxArgs),
            JSON : {s_empty, s_json}, Prompt : BOOLEAN] :
        /\ o.Prompt => (o.Selector = s_empty /\ o.InputArgs = <<>>)
        /\ o.JSON # s_empty => (o.Selector # s_empty /\ o.InputArgs = <<>>)}

InitRun ==
    /\ pc = "runRun"
    /\ opts \in RunOptions
    /\ rootNode = Document(<<>>)
    /\ found = NotCalled
    /\ args = <<>>
    /\ argsLenAtDash = -1
    /\ io = NoIO
    /\ providedInputs = EmptyMap
    /\ ret = NoErr

Return(e) ==
    /\ ret' = e
    /\ pc' = "done"

RunHttpClient ==
    /\ pc = "runRun"
    /\ \/ pc' = "BaseRepo" /\ ret' = ret
       \/ Return(Err("could not build http client"))
    /\ UNCHANGED <<args, argsLenAtDash, io, opts, rootNode, found, providedInputs>>

RunBaseRepo ==
    /\ pc = "BaseRepo"
    /\ \/ pc' = "ResolveWorkflow" /\ ret' = ret
       \/ Return(Err("could not determine base repo"))
    /\ UNCHANGED <<args, argsLenAtDash, io, opts, rootNode, found, providedInputs>>

RunResolveWorkflow ==
    /\ pc = "ResolveWorkflow"
    /\ \/ pc' = "RepoDefaultBranch" /\ ret' = ret
       \/ Return(Err("no workflows are enabled on this repository"))
       \/ Return(Err("could not resolve workflow"))
    /\ UNCHANGED <<args, argsLenAtDash, io, opts, rootNode, found, providedInputs>>

RunDefaultBranch ==
    /\ pc = "RepoDefaultBranch"
    /\ \/ pc' = "getWorkflowContent" /\ ret' = ret
       \/ opts.Ref = s_empty /\ Return(Err("unable to determine default branch"))
    /\ UNCHANGED <<args, argsLenAtDash, io, opts, rootNode, found, providedInputs>>

RunGetWorkflowContent ==
    /\ pc = "getWorkflowContent"
    /\ \/ /\ rootNode' \in RunDocs
          /\ pc' = "findInputs"
          /\ ret' = ret
       \/ Return(Err("unable to fetch workflow file content")) /\ rootNode' = rootNode
    /\ UNCHANGED <<args, argsLenAtDash, io, opts, found, providedInputs>>

RunFindInputs ==
    /\ pc = "findInputs"
    /\ found' = findInputs(rootNode)
    /\ IF found'.err # NoErr THEN Return(found'.err)
       ELSE pc' = "provideInputs" /\ ret' = ret
    /\ UNCHANGED <<args, argsLenAtDash, io, opts, rootNode, providedInputs>>

\* json.Unmarshal(data, providedInputs): the target is a map, not a pointer
JSONUnmarshalOK(data) == FALSE

\* fs.String(inputName, input.Default, ...) for every declared input
FlagDefaults(inputs) == [n \in DOMAIN inputs |-> inputs[n].Default]

MissingRequired(inputs, vals) ==
    {n \in DOMAIN inputs : inputs[n].Required /\ vals[n] = s_empty}

RunProvideInputs ==
    /\ pc = "provideInputs"
    /\ IF opts.Prompt THEN Return(NoErr) /\ providedInputs' = providedInputs
       ELSE IF opts.JSON # s_empty /\ ~JSONUnmarshalOK(opts.JSON)
       THEN Return(Err("could not parse provided JSON")) /\ providedInputs' = providedInputs
       ELSE IF Len(opts.InputArgs) = 0
       THEN Return(NoErr) /\ providedInputs' = providedInputs
       ELSE LET parsed == ParseArgs(opts.InputArgs, 1, FlagDefaults(found.out))
                missing == MissingRequired(found.out, parsed.vals)
            IN IF ~parsed.ok
               THEN Return(Err("could not parse input args"))
                        /\ providedInputs' = providedInputs
               ELSE IF missing # {}
               THEN \E n \in missing :
                    \E before \in SUBSET (DOMAIN found.out \ missing) :
                        /\ Return(ErrArg("missing required input", n))
                        /\ providedInputs' = [m \in before |-> parsed.vals[m]]
               ELSE Return(NoErr) /\ providedInputs' = parsed.vals
    /\ UNCHANGED <<args, argsLenAtDash, io, opts, rootNode, found>>

NextRun ==
    \/ RunHttpClient
    \/ RunBaseRepo
    \/ RunResolveWorkflow
    \/ RunDefaultBranch
    \/ RunGetWorkflowContent
    \/ RunFindInputs
    \/ RunProvideInputs

SpecRun == InitRun /\ [][NextRun]_vars

(***************************************************************************)
(* What a document declares, read by pairing every key with the value that *)
(* follows it.                                                             *)
(***************************************************************************)
SingleTop(root) ==
    /\ root.Kind = "document"
    /\ Len(root.Content) = 1
    /\ root.Content[1].Kind = "mapping"

Top(root) == root.Content[1].Content

KeysFold(c, name) == {i \in KeyPositions(c) : EqualFold(c[i].Value, name)}
KeysExact(c, name) == {i \in KeyPositions(c) : c[i].Value = name}

\* the value bound to the one key of mapping n spelled `name`; Null when n is
\* no mapping or has no such key
ValueOf(n, name) ==
    IF n.Kind = "mapping" /\ KeysExact(n.Content, name) # {}
    THEN n.Content[(CHOOSE i \in KeysExact(n.Content, name) : TRUE) + 1]
    ELSE Null

HasKey(n, name) == n.Kind = "mapping" /\ Cardinality(KeysExact(n.Content, name)) = 1
LacksKey(n, name) == n.Kind = "mapping" /\ KeysExact(n.Content, name) = {}

\* the top-level mapping has exactly one key that folds to `on`
HasOn(root) == SingleTop(root) /\ Cardinality(KeysFold(Top(root), s_on)) = 1
OnValue(root) == Top(root)[(CHOOSE i \in KeysFold(Top(root), s_on) : TRUE) + 1]

WellFormedInputs(m) ==
    /\ m.Kind = "mapping"
    /\ DecodeOK(m)
    /\ \A i \in KeyPositions(m.Content) : m.Content[i + 1].Kind = "mapping"

\* C1: a document with on -> workflow_dispatch -> inputs bound to a well-formed
\* mapping yields a nil error and one entry per declared input with its declared
\* required, default and description, whatever else the document holds.
C1_Stated ==
    (/\ pc = "done"
     /\ HasOn(rootNode)
     /\ HasKey(OnValue(rootNode), s_workflow_dispatch)
     /\ HasKey(ValueOf(OnValue(rootNode), s_workflow_dispatch), s_inputs)
     /\ WellFormedInputs(
            ValueOf(ValueOf(OnValue(rootNode), s_workflow_dispatch), s_inputs)))
    => /\ found.err = NoErr
       /\ found.out =
            Decode(ValueOf(ValueOf(OnValue(rootNode), s_workflow_dispatch), s_inputs))

\* C2: on -> workflow_dispatch present and the value of workflow_dispatch has no
\* key `inputs` (null, or a mapping with other keys only): empty mapping, nil error.
C2_Stated ==
    (/\ pc = "done"
     /\ HasOn(rootNode)
     /\ HasKey(OnValue(rootNode), s_workflow_dispatch)
     /\ LET w == ValueOf(OnValue(rootNode), s_workflow_dispatch)
        IN w = Null \/ LacksKey(w, s_inputs))
    => /\ found.err = NoErr
       /\ found.out = EmptyMap

\* C3: a single top-level mapping with no key folding to `on` fails with the
\* missing-`on` error and no mapping, whatever its keys and values are.
C3_Stated ==
    (/\ pc = "done"
     /\ SingleTop(rootNode)
     /\ KeysFold(Top(rootNode), s_on) = {})
    => found = Failed(ErrNoOn, found.scan)

\* C4: `on` present with a mapping value that has no key workflow_dispatch fails
\* with the not-manually-runnable error and no mapping.
C4_Stated ==
    (/\ pc = "done"
     /\ HasOn(rootNode)
     /\ LacksKey(OnValue(rootNode), s_workflow_dispatch))
    => found = Failed(ErrNoDispatch, found.scan)

\* C7: the node matched at each of the three levels is in key position of the
\* flat child list; a value-position scalar is never the match.
C7_Stated ==
    pc = "done" =>
        /\ found.scan.onKeyNode # 0 =>
             found.scan.onKeyNode \in KeyPositions(Top(rootNode))
        /\ found.scan.dispatchKeyNode # 0 =>
             found.scan.dispatchKeyNode
                 \in KeyPositions(OnScanned(rootNode, found.scan).Content)
        /\ found.scan.inputsKeyNode # 0 =>
             found.scan.inputsKeyNode
                 \in KeyPositions(DispatchScanned(rootNode, found.scan).Content)

\* C6: a root node with zero or more than one content node fails with the
\* format error and no mapping, whatever the content nodes hold.
C6_RootShape ==
    (/\ pc = "done"
     /\ rootNode.Kind = "document"
     /\ Len(rootNode.Content) # 1)
    => found = Failed(ErrInvalidYaml, NoScan)

C6_Witness ==
    /\ pc = "done"
    /\ Len(rootNode.Content) = 2
    /\ rootNode.Content[1] = GoodTop
    /\ found.err = ErrInvalidYaml
    /\ found.outNil

InputsProvided == pc = "done" /\ found # NotCalled /\ found.err = NoErr

\* C8: without prompting, runRun returns nil only if every input declared
\* required has a non-empty value in providedInputs, and a required input left
\* without one makes it return "missing required input '<name>'".
C8_Stated ==
    (InputsProvided /\ ~opts.Prompt) =>
        LET unfilled == {n \in DOMAIN found.out :
                            /\ found.out[n].Required
                            /\ \/ n \notin DOMAIN providedInputs
                               \/ providedInputs[n] = s_empty}
        IN /\ ret = NoErr => unfilled = {}
           /\ unfilled # {} =>
                /\ ret.msg = "missing required input"
                /\ ret.arg \in unfilled

(***************************************************************************)
(* The `run` command: cobra parses the flags (--json, --ref), calls Args   *)
(* with the positional arguments, then RunE.  ArgsLenAtDash is -1 without  *)
(* `--`, else the number of arguments before it; an argument before `--`   *)
(* never starts with "-" (it would have been parsed as a flag).            *)
(***************************************************************************)
ArgVocab == {s_empty, s_wf, LongFlag(s_name, s_x)}

ErrArgsRequired == FlagError("workflow argument required when passing input flags")
ErrNotInteractive ==
    FlagError("workflow ID or name required when not running interactively")
ErrStdin == Err("failed to read from STDIN")
ErrJSONNeedsWorkflow == FlagError("workflow argument required when passing JSON")
ErrJSONOrArgs ==
    FlagError("only one of JSON or input arguments can be passed at a time")
Panic == Err("panic: runtime error: slice bounds out of range")

InitCmd ==
    /\ pc = "Args"
    /\ args \in SeqsUpTo(ArgVocab, MaxArgs)
    /\ argsLenAtDash \in {-1} \cup (0..Len(args))
    /\ \A i \in 1..Len(args) :
          (argsLenAtDash = -1 \/ i <= argsLenAtDash) => ~IsFlagArg(args[i])
    /\ io \in [canPrompt : BOOLEAN, stdinTTY : BOOLEAN, in : {s_empty, s_json},
               readErr : BOOLEAN]
    /\ \E j \in {s_empty, s_json}, r \in {s_empty, s_main} :
          opts = [NoOpts EXCEPT !.JSON = j, !.Ref = r]
    /\ rootNode = Document(<<>>)
    /\ found = NotCalled
    /\ providedInputs = EmptyMap
    /\ ret = NoErr

\* args[1:] of a slice of length n is in range iff 1 <= n
SliceFromOneOK(a) == Len(a) >= 1

ArgsValidate ==
    /\ pc = "Args"
    /\ IF argsLenAtDash # 0 THEN pc' = "RunE" /\ ret' = ret
       ELSE IF ~SliceFromOneOK(args) THEN pc' = "panic" /\ ret' = Panic
       ELSE IF Len(Tail(args)) > 0 THEN pc' = "argsError" /\ ret' = ErrArgsRequired
       ELSE pc' = "RunE" /\ ret' = ret
    /\ UNCHANGED <<args, argsLenAtDash, io, opts, rootNode, found, providedInputs>>

\* len(args) > 0: the selector and the input arguments; else prompt if possible
WithArgs(o, a, canPrompt) ==
    IF Len(a) > 0 THEN [o EXCEPT !.Selector = a[1], !.InputArgs = Tail(a)]
    ELSE IF ~canPrompt THEN o
    ELSE [o EXCEPT !.Prompt = TRUE]

JSONConflictNever(o) == FALSE

JSONConflict(o) == o.JSON # s_empty /\ Len(o.InputArgs) > 0

RunE ==
    /\ pc = "RunE"
    /\ LET o1 == WithArgs(opts, args, io.canPrompt)
           o2 == IF io.stdinTTY \/ io.readErr THEN o1 ELSE [o1 EXCEPT !.JSON = io.in]
       IN IF Len(args) = 0 /\ ~io.canPrompt
          THEN Return(ErrNotInteractive) /\ opts' = o1
          ELSE IF ~io.stdinTTY /\ io.readErr
          THEN Return(ErrStdin) /\ opts' = o1
          ELSE IF o2.Selector = s_empty /\ o2.JSON # s_empty
          THEN Return(ErrJSONNeedsWorkflow) /\ opts' = o2
          ELSE IF o2.Selector # s_empty /\ JSONConflict(o2)
          THEN Return(ErrJSONOrArgs) /\ opts' = o2
          ELSE pc' = "runRun" /\ ret' = ret /\ opts' = o2
    /\ UNCHANGED <<args, argsLenAtDash, io, rootNode, found, providedInputs>>

NextCmd ==
    \/ ArgsValidate
    \/ RunE

SpecCmd == InitCmd /\ [][NextCmd]_vars

\* the JSON the command ends up with: STDIN when it is no terminal, else --json
GivenJSON == IF io.stdinTTY THEN opts.JSON ELSE io.in

C10_Stated ==
    pc # "Args" =>
        /\ pc # "panic"
        /\ IF argsLenAtDash = 0 /\ Len(args) >= 1
           THEN pc = "argsError" /\ ret = ErrArgsRequired
           ELSE pc # "argsError"

====
